---- MODULE Spec2Model ----
(***************************************************************************)
(* Model of the SNTP responder of src/sntp_server.py: the message codec    *)
(* (Server.format_request, SNTPMessage.get_reply, SNTPMessage.format_time) *)
(* and the request pipeline (receiver thread -> queue.Queue -> worker      *)
(* threads -> socket.sendto), with the enter/exit lifecycle of the Server. *)
(*                                                                         *)
(* Numbers.  TLC's integers are 32 bits wide, while the program handles    *)
(* TIME_OFFSET = 2208988800 > 2^31 and 64-bit timestamps.  Numbers wider   *)
(* than a limb are therefore kept as big-endian base-65536 limbs:          *)
(*   - a time in seconds (a Python float or int) is a record               *)
(*     [hi, lo, fr] standing for hi*2^16 + lo + fr/2^16, where lo and fr   *)
(*     are in 0..65535 and hi carries the sign;                            *)
(*   - a Python int holding a 64-bit quantity is a sequence of four limbs  *)
(*     <<l1, l2, l3, l4>> standing for l1*2^48 + l2*2^32 + l3*2^16 + l4,   *)
(*     where l2..l4 are in 0..65535 and l1 carries the sign and any excess *)
(*     over 64 bits.                                                       *)
(* Every time of the model is a multiple of 2^-16 s, which a double holds  *)
(* exactly at the magnitudes involved, so the float arithmetic of the      *)
(* program is exact on them and int() in format_time truncates nothing.    *)
(***************************************************************************)
EXTENDS Integers, Sequences, FiniteSets, Bags, TLC

\* ------------------------------------------------------------------ bounds

\* Datagrams and receive errors the receiver handles in one run.
MaxDatagrams == 2
\* Largest thread_count the Server is constructed with.
MaxWorkers == 2
\* The wall clock runs from 0 to MaxClock half-seconds of Unix time.
MaxClock == 1

\* The values of --delay the model is run with (an int, possibly negative).
Delays == {-1, 0, 5}


\* ------------------------------------------------------------- arithmetic

\* One limb: 2^16.
Limb == 256 * 256

\* The int 0 and the float 0 that SNTPMessage.__init__ defaults to.
ZeroTime == [hi |-> 0, lo |-> 0, fr |-> 0]
ZeroInt == <<0, 0, 0, 0>>

\* a + b on times.
AddTime(a, b) ==
    LET f == a.fr + b.fr
        l == a.lo + b.lo + (f \div Limb)
    IN  [hi |-> a.hi + b.hi + (l \div Limb), lo |-> l % Limb, fr |-> f % Limb]

\* A small Python int (the delay, in seconds) as a time.
IntTime(d) == [hi |-> d \div Limb, lo |-> d % Limb, fr |-> 0]

\* TIME_OFFSET = 25567 days * 24 * 3600 = 2208988800 = 33706 * 2^16 + 32384.
TIME_OFFSET == [hi |-> 33706, lo |-> 32384, fr |-> 0]

\* time(): the wall clock, c half-seconds after the Unix epoch.
Time(c) == [hi |-> 0, lo |-> c \div 2, fr |-> (c % 2) * (Limb \div 2)]

\* Mutant: the bytes read as 'little'.
FromBytesLittle(bs) == [i \in 1..4 |-> bs[10 - 2 * i] * 256 + bs[9 - 2 * i]]

\* int.from_bytes(bs, 'big') of 8 bytes.
FromBytes(bs) == [i \in 1..4 |-> bs[2 * i - 1] * 256 + bs[2 * i]]

\* struct's 'Q' accepts v iff 0 <= v < 2^64; otherwise pack raises struct.error.
FitsQ(v) == v[1] >= 0 /\ v[1] < Limb

\* The 8 big-endian bytes struct packs for 'Q'.
PackQ(v) == [i \in 1..8 |-> IF i % 2 = 1 THEN v[(i + 1) \div 2] \div 256
                                         ELSE v[i \div 2] % 256]

Zeros(n) == [i \in 1..n |-> 0]

\* ------------------------------------------------------------------ codec

NoneMsg == [kind |-> "None"]

SNTPMessage(is_correct, version, mode, originate_time, receive_time) ==
    [kind |-> "SNTPMessage", correct |-> is_correct, time_offset |-> 0,
     leap_indicator |-> 0, version |-> version, mode |-> mode,
     stratum |-> 0, poll |-> 0, precision |-> 0,
     originate_time |-> originate_time, receive_time |-> receive_time]

\* SNTPMessage(False): version, mode, originate_time and receive_time default.
MalformedMessage == SNTPMessage(FALSE, 3, 3, ZeroInt, ZeroTime)

\* int(raw_time * 2 ** 32).
format_time(raw_time) == <<raw_time.hi, raw_time.lo, raw_time.fr, 0>>

\* Mutant: the version shifted by 2 instead of 3.
FirstByteShift(m) == m.leap_indicator * 64 + m.version * 4 + m.mode

\* (leap_indicator << 6) | (version << 3) | mode: the fields do not overlap.
FirstByte(m) == m.leap_indicator * 64 + m.version * 8 + m.mode

ReplyReceive(m) == format_time(AddTime(m.receive_time, IntTime(m.time_offset)))

\* Mutant: the transmit time without the configured delay.
ReplyTransmitNoOffset(m, c) == format_time(AddTime(Time(c), TIME_OFFSET))

ReplyTransmit(m, c) ==
    format_time(AddTime(AddTime(Time(c), TIME_OFFSET), IntTime(m.time_offset)))

\* get_reply returns iff struct.pack accepts every argument.
ReplyPacks(m, c) ==
    /\ FitsQ(m.originate_time)
    /\ FitsQ(ReplyReceive(m))
    /\ FitsQ(ReplyTransmit(m, c))

\* Mutant: '>3Bb4I3Q', one zero word short.
get_reply_four_words(m, c) ==
    <<FirstByte(m), m.stratum, m.poll, m.precision>> \o Zeros(16)
        \o PackQ(m.originate_time) \o PackQ(ReplyReceive(m))
        \o PackQ(ReplyTransmit(m, c))

\* Mutant: the receive field stamped when the reply is built.
get_reply_now(m, c) ==
    <<FirstByte(m), m.stratum, m.poll, m.precision>> \o Zeros(20)
        \o PackQ(m.originate_time) \o PackQ(ReplyTransmit(m, c))
        \o PackQ(ReplyTransmit(m, c))

\* struct.pack('>3Bb5I3Q', ...) of get_reply, with the wall clock at c.
get_reply(m, c) ==
    <<FirstByte(m), m.stratum, m.poll, m.precision>> \o Zeros(20)
        \o PackQ(m.originate_time) \o PackQ(ReplyReceive(m))
        \o PackQ(ReplyTransmit(m, c))

\* Mutant: the mode compared with 4, the server's own.
format_request_server_mode(data, c) ==
    IF Len(data) < 48 THEN MalformedMessage
    ELSE IF data[1] % 8 # 4 THEN NoneMsg
         ELSE SNTPMessage(TRUE, (data[1] \div 8) % 8, 4,
                          FromBytes(SubSeq(data, 41, 48)),
                          AddTime(Time(c), TIME_OFFSET))

\* Mutant: the mode of the request is not looked at.
format_request_any_mode(data, c) ==
    IF Len(data) < 48 THEN MalformedMessage
    ELSE SNTPMessage(TRUE, (data[1] \div 8) % 8, 4,
                     FromBytes(SubSeq(data, 41, 48)),
                     AddTime(Time(c), TIME_OFFSET))

\* format_request(data), with the wall clock at c.
format_request(data, c) ==
    IF Len(data) < 48 THEN MalformedMessage
    ELSE LET version == (data[1] \div 8) % 8
             mode == data[1] % 8
             originate_time == FromBytes(SubSeq(data, 41, 48))
         IN  IF mode # 3 THEN NoneMsg
             ELSE SNTPMessage(TRUE, version, 4, originate_time,
                              AddTime(Time(c), TIME_OFFSET))

\* `if sntp_message:` : None is false, an SNTPMessage object is true.
Truthy(m) == m.kind # "None"

\* ----------------------------------------------------------------- inputs

\* A datagram of n bytes: byte 0 is b0, bytes 40..47 are orig, the rest 0.
Datagram(n, b0, orig) ==
    [i \in 1..n |-> IF i = 1 THEN b0
                    ELSE IF i >= 41 /\ i <= 48 THEN orig[i - 40] ELSE 0]

\* b'testData' * 15, the payload of src/test_client.py.
TestData == [i \in 1..120 |-> <<116, 101, 115, 116, 68, 97, 116, 97>>[((i - 1) % 8) + 1]]

\* byte0 = 0x1B (LI=0, VN=3, mode=3), originate 0x0000000100000000.
ScenarioRequest == Datagram(48, 27, <<0, 0, 0, 1, 0, 0, 0, 0>>)

\* byte0 = 0xE3 (LI=3, VN=4, mode=3), 49 bytes.
OtherRequest == Datagram(49, 227, <<222, 173, 190, 239, 0, 255, 128, 1>>)

\* 47 bytes, byte0 = 0x1B: one byte short of a request.
ShortRequest == Datagram(47, 27, Zeros(8))

\* What recvfrom returns: (data, address), from two senders.
Inputs ==
    {[data |-> <<>>, address |-> "a1"],
     [data |-> ShortRequest, address |-> "a2"],
     [data |-> ScenarioRequest, address |-> "a1"],
     [data |-> OtherRequest, address |-> "a2"],
     [data |-> TestData, address |-> "a2"]}

\* ------------------------------------------------------------------ state

(***************************************************************************)
(* The worker threads all run reply_to_request on the same Server and keep *)
(* nothing of their own but the entry they took from the queue, so the     *)
(* pool is kept as counts: thread_count threads, `dead` of them ended by   *)
(* an uncaught exception, and the bag `holding` of the entries held by the *)
(* threads that are between get() and sendto(); the others are at get().   *)
(***************************************************************************)
VARIABLES
    state,         \* lifecycle: "Parsed" (main, before the port test), "Exited",
                   \* "Created", "Running" (entered), "Stopped" (socket closed)
    port,          \* namespace.port
    exit_status,   \* the status the process ended with, -1 while it runs
    time_delay,    \* Server.time_delay
    thread_count,  \* len(Server.workers)
    clock,         \* the wall clock, in half-seconds of Unix time
    closes,        \* the number of socket.close() calls made
    rpc,           \* the receiver thread: "unstarted", "recvfrom" (in a call made
                   \* on the open socket), "loop" (the socket is closed, every
                   \* further call raises at once), "dead"
    requests,      \* Server.requests, the queue.Queue
    holding,       \* the (sntp_message, address) entries workers hold after get()
    dead,          \* the number of worker threads an exception has ended
    received,      \* history: what recvfrom returned or raised, with the clock then
    taken,         \* history: the ids of the entries get() returned, in order
    sent           \* history: per received datagram, the datagrams sent in reply

vars == <<state, port, exit_status, time_delay, thread_count, clock, closes, rpc,
          requests, holding, dead, received, taken, sent>>

\* What main fixes before the Server exists.
mainvars == <<port, exit_status, time_delay, thread_count>>

\* Worker threads at requests.get(): started, alive and holding nothing.
Idle ==
    IF state \in {"Running", "Stopped"}
    THEN thread_count - dead - BagCardinality(holding)
    ELSE 0

\* The Server as __init__ leaves it: the queue is empty, no thread runs.
Constructed ==
    /\ clock = 0
    /\ closes = 0
    /\ rpc = "unstarted"
    /\ requests = <<>>
    /\ holding = EmptyBag
    /\ dead = 0
    /\ received = <<>>
    /\ taken = <<>>
    /\ sent = <<>>

\* Server.__init__ with the default port: the socket is bound.
Init ==
    /\ state = "Created"
    /\ port = 123
    /\ exit_status = -1
    /\ time_delay \in Delays
    /\ thread_count \in 1..MaxWorkers
    /\ Constructed

\* queue.Queue.put and what get leaves behind.
QueuePut(q, e) == Append(q, e)
\* Mutant: get returns the head and leaves it on the queue.
QueueRestKeep(q) == q
QueueRest(q) == Tail(q)

\* Server.__enter__: every worker and the receiver are started; the receiver
\* enters recvfrom.
Start ==
    /\ state = "Created"
    /\ state' = "Running"
    /\ rpc' = "recvfrom"
    /\ UNCHANGED <<mainvars, clock, closes, requests, holding, dead,
                   received, taken, sent>>

\* Mutant: the socket is closed after the re-raise.
ExitClosesAfterRaise(exc_tb) == IF exc_tb = "None" THEN 1 ELSE 0

\* The socket.close() calls of __exit__(exc_type, exc_val, exc_tb): line 73
\* runs before exc_tb is looked at.
ExitCloses(exc_tb) == 1

\* Server.__exit__, at the normal end of the with block (KeyboardInterrupt is
\* caught inside it) or with an error in flight, which is re-raised after the
\* close; the daemon threads are not joined.
Stop ==
    /\ state = "Running"
    /\ state' = "Stopped"
    /\ \E exc_tb \in {"None", "traceback"} : closes' = closes + ExitCloses(exc_tb)
    /\ UNCHANGED <<mainvars, clock, rpc, requests, holding, dead,
                   received, taken, sent>>

\* The wall clock advances by half a second.
Tick ==
    /\ state \in {"Created", "Running", "Stopped"}
    /\ clock < MaxClock
    /\ clock' = clock + 1
    /\ UNCHANGED <<state, mainvars, closes, rpc, requests, holding, dead,
                   received, taken, sent>>

\* Mutant: byte 0 is read without the length test before it.
FormatRaisesUnguarded(data) == Len(data) = 0

\* format_request raises (IndexError at data[0]) iff it gets past the length
\* test with no byte to read; the slice data[40:48] never raises.
FormatRaises(data) == ~(Len(data) < 48) /\ Len(data) = 0

\* receive_request, one pass of the loop in which recvfrom returns (data, address).
\* A call entered before socket.close() is not interrupted by it: it can still
\* return a datagram that arrives later; the calls after it raise.  An
\* exception other than socket.error ends the thread.
Receive(data, address) ==
    /\ rpc = "recvfrom"
    /\ state \in {"Running", "Stopped"}
    /\ Len(received) < MaxDatagrams
    /\ IF FormatRaises(data)
       THEN /\ rpc' = "dead"
            /\ UNCHANGED requests
       ELSE /\ rpc' = IF state = "Running" THEN "recvfrom" ELSE "loop"
            /\ requests' = QueuePut(requests, [msg |-> format_request(data, clock),
                                               address |-> address,
                                               id |-> Len(received) + 1])
    /\ received' = Append(received, [data |-> data, address |-> address,
                                     arrival |-> clock])
    /\ sent' = Append(sent, <<>>)
    /\ UNCHANGED <<state, mainvars, clock, closes, holding, dead, taken>>

\* receive_request, one pass of the loop in which recvfrom raises socket.error
\* on the open socket: `except socket.error: pass`, nothing is put on the queue.
ReceiveError ==
    /\ rpc = "recvfrom"
    /\ state = "Running"
    /\ Len(received) < MaxDatagrams
    /\ received' = Append(received, [data |-> <<>>, address |-> "error",
                                     arrival |-> clock])
    /\ sent' = Append(sent, <<>>)
    /\ UNCHANGED <<state, mainvars, clock, closes, rpc, requests, holding,
                   dead, taken>>

\* receive_request once the socket is closed: recvfrom raises socket.error
\* (EBADF), `except socket.error: pass`, and the loop goes on the same way.
ReceiveClosed ==
    /\ rpc \in {"recvfrom", "loop"}
    /\ state = "Stopped"
    /\ rpc' = "loop"
    /\ UNCHANGED <<state, mainvars, clock, closes, requests, holding, dead,
                   received, taken, sent>>

\* reply_to_request, one pass of the loop in which requests.get(block=False)
\* raises queue.Empty: `except queue.Empty: pass`, back to the head of the loop.
WorkerEmpty ==
    /\ Idle > 0
    /\ requests = <<>>
    /\ UNCHANGED vars

\* reply_to_request, requests.get(block=False) returns an entry, and the test
\* `if sntp_message:`.
WorkerGet ==
    /\ Idle > 0
    /\ requests # <<>>
    /\ requests' = QueueRest(requests)
    /\ taken' = Append(taken, Head(requests).id)
    /\ IF Truthy(Head(requests).msg)
       THEN holding' = holding (+) SetToBag({Head(requests)})
       ELSE UNCHANGED holding
    /\ UNCHANGED <<state, mainvars, clock, closes, rpc, dead, received, sent>>

\* Mutant: the configured delay is not applied.
WithOffsetDropped(m, delay) == m

\* The message a worker replies with: time_offset = self.time_delay.
WithOffset(m, delay) == [m EXCEPT !.time_offset = delay]

\* Mutant: the address of the datagram received last, as if kept on the Server.
ReplyAddressLast(e) == received[Len(received)].address

\* The address sendto is given: the one dequeued with the message.
ReplyAddress(e) == e.address

\* reply_to_request, lines 86-87, by a worker holding entry e: set time_offset,
\* get_reply(), sendto().  struct.error from get_reply or OSError from sendto
\* on the closed socket is not caught: the thread ends.
WorkerReply(e) ==
    /\ BagIn(e, holding)
    /\ holding' = holding (-) SetToBag({e})
    /\ LET m == WithOffset(e.msg, time_delay)
       IN  IF ReplyPacks(m, clock) /\ state = "Running"
           THEN /\ sent' = [sent EXCEPT ![e.id] =
                               Append(@, [data |-> get_reply(m, clock),
                                          address |-> ReplyAddress(e)])]
                /\ UNCHANGED dead
           ELSE /\ dead' = dead + 1
                /\ UNCHANGED sent
    /\ UNCHANGED <<state, mainvars, clock, closes, rpc, requests, received, taken>>

Next ==
    \/ Start
    \/ Stop
    \/ Tick
    \/ \E in \in Inputs : Receive(in.data, in.address)
    \/ ReceiveError
    \/ ReceiveClosed
    \/ WorkerEmpty
    \/ WorkerGet
    \/ \E e \in BagToSet(holding) : WorkerReply(e)

Spec == Init /\ [][Next]_vars

\* The values of --port the model is run with: around both ends of the range
\* and the default.
Ports == {0, 1, 2, 123, 65534, 65535}

\* Mutant: the ends of the range are accepted.
PortOkInclusive(p) == 1 <= p /\ p <= 65535

\* main: `1 < namespace.port < 65535`.
PortOk(p) == 1 < p /\ p < 65535

\* After parse_args, with the default delay and the pool main asks for.
MainInit ==
    /\ state = "Parsed"
    /\ port \in Ports
    /\ exit_status = -1
    /\ time_delay = 0
    /\ thread_count = MaxWorkers
    /\ Constructed

\* main up to the with statement: exit(1) on a port out of range, else
\* Server(...), whose __init__ opens and binds the socket.
Main ==
    /\ state = "Parsed"
    /\ IF PortOk(port)
       THEN state' = "Created" /\ UNCHANGED exit_status
       ELSE state' = "Exited" /\ exit_status' = 1
    /\ UNCHANGED <<port, time_delay, thread_count, clock, closes, rpc, requests,
                   holding, dead, received, taken, sent>>

\* main with a port in range, when bind raises OSError (the port is taken or
\* privileged): the socket was opened, nothing catches the error, the process
\* ends with status 1.
MainBindError ==
    /\ state = "Parsed"
    /\ PortOk(port)
    /\ state' = "BindFailed"
    /\ exit_status' = 1
    /\ UNCHANGED <<port, time_delay, thread_count, clock, closes, rpc, requests,
                   holding, dead, received, taken, sent>>

MainNext ==
    \/ Main
    \/ MainBindError
    \/ Next

MainSpec == MainInit /\ [][MainNext]_vars

\* Workers run whenever they can (the threads are started and never wait);
\* nothing obliges a datagram to arrive, the clock to tick or the scope to end.
FairSpec ==
    /\ Spec
    /\ WF_vars(WorkerGet)
    /\ WF_vars(\E e \in BagToSet(holding) : WorkerReply(e))

\* ------------------------------------------------------- reading histories

Ids == 1..Len(received)
IsDatagram(i) == received[i].address # "error"
Short(i) == IsDatagram(i) /\ Len(received[i].data) < 48
Valid(i) == IsDatagram(i) /\ Len(received[i].data) >= 48
                /\ received[i].data[1] % 8 = 3
WrongMode(i) == IsDatagram(i) /\ Len(received[i].data) >= 48
                    /\ received[i].data[1] % 8 # 3

\* Entry i was dequeued; a worker has finished with entry i.
Dequeued(i) == \E j \in 1..Len(taken) : taken[j] = i
Handled(i) == Dequeued(i) /\ \A e \in BagToSet(holding) : e.id # i

\* The fields of a 48-byte frame.
ModeField(d) == d[1] % 8
OriginateField(d) == SubSeq(d, 25, 32)
ReceiveField(d) == SubSeq(d, 33, 40)
TransmitField(d) == SubSeq(d, 41, 48)

\* a >= b for big-endian byte strings of one length.
BytesGE(a, b) ==
    \/ a = b
    \/ \E i \in 1..Len(a) : a[i] > b[i] /\ \A j \in 1..(i - 1) : a[j] = b[j]

\* The 64-bit fixed-point encoding of a/2 + 2208988800 + d seconds, computed
\* on the bytes: 2208988800 = 0x83AA7E80, 0x83 = 131, 0xAA = 170, 0x7E80 = 32384.
NtpStamp(a, d) ==
    LET lo == 32384 + (a \div 2) + d
    IN  <<131, 170, lo \div 256, lo % 256, (a % 2) * 128, 0, 0, 0>>

SentTo(a) ==
    Cardinality({p \in UNION {{<<i, k>> : k \in 1..Len(sent[i])} : i \in Ids} :
                    sent[p[1]][p[2]].address = a})
ReceivedFrom(a) == Cardinality({i \in Ids : received[i].address = a})

\* ----------------------------------------------------------------- claims

\* C1: every queue entry is dequeued at most once, no datagram is answered
\* twice, and no client is sent more replies than it sent datagrams.
C1_AtMostOnce ==
    /\ \A j, k \in 1..Len(taken) : taken[j] = taken[k] => j = k
    /\ \A i \in Ids : Len(sent[i]) <= 1
    /\ \A a \in {"a1", "a2"} : SentTo(a) <= ReceivedFrom(a)

\* Two workers served two datagrams of one client, one reply each.
C1_Witness ==
    /\ thread_count = 2
    /\ Len(received) = 2 /\ Len(taken) = 2
    /\ received[1].address = received[2].address
    /\ Len(sent[1]) = 1 /\ Len(sent[2]) = 1

\* C2: while the server stays Running, every received datagram of at least
\* 48 bytes with mode 3 is eventually answered.
C2_ValidEventuallyAnswered ==
    \A i \in 1..MaxDatagrams :
        (i \in Ids /\ Valid(i)) ~> (state = "Stopped" \/ (i \in Ids /\ Len(sent[i]) >= 1))

C4_OriginateEcho ==
    \A i \in Ids : Valid(i) =>
        \A k \in 1..Len(sent[i]) :
            /\ OriginateField(sent[i][k].data) = SubSeq(received[i].data, 41, 48)
            /\ ModeField(sent[i][k].data) = 4

\* A 48-byte request was answered while another entry waited in the queue.
C4_Witness ==
    \E i \in Ids :
        /\ Valid(i) /\ Len(received[i].data) = 48 /\ Len(sent[i]) = 1
        /\ requests # <<>> /\ time_delay # 0

\* The ids of the scenario's request: 48 bytes, byte 0 = 0x1B, originate
\* field 0x0000000100000000.
ScenarioIds == {i \in Ids : IsDatagram(i) /\ received[i].data = ScenarioRequest}

\* What the scenario expects of reply d to request i besides byte 0.
ScenarioRest(i, d) ==
    /\ Len(d) = 48
    /\ OriginateField(d) = <<0, 0, 0, 1, 0, 0, 0, 0>>
    /\ BytesGE(ReceiveField(d), NtpStamp(received[i].arrival, 5))
    /\ BytesGE(TransmitField(d), NtpStamp(received[i].arrival, 5))

\* C5 as stated: under delay 5 the reply to the scenario's request is 48
\* bytes, byte 0 is 0x24, the originate field is 0x0000000100000000 and the
\* receive and transmit fields are at least the arrival time plus 5 s.
C5_Original ==
    time_delay = 5 =>
        \A i \in ScenarioIds : \A k \in 1..Len(sent[i]) :
            sent[i][k].data[1] = 36 /\ ScenarioRest(i, sent[i][k].data)

\* C5, amended: the same, with byte 0 = 0x1C (LI=0, VN=3 as in the request,
\* mode=4).
C5_Scenario ==
    time_delay = 5 =>
        \A i \in ScenarioIds : \A k \in 1..Len(sent[i]) :
            sent[i][k].data[1] = 28 /\ ScenarioRest(i, sent[i][k].data)

\* The scenario's request was answered under delay 5.
C5_Witness == time_delay = 5 /\ \E i \in ScenarioIds : Len(sent[i]) = 1

\* C6: the receive field of the reply to a valid request encodes the arrival
\* time the receiver recorded plus the configured delay.
C6_ReceiveIsArrivalPlusDelay ==
    \A i \in Ids : Valid(i) =>
        \A k \in 1..Len(sent[i]) :
            ReceiveField(sent[i][k].data) = NtpStamp(received[i].arrival, time_delay)

\* A valid request waited while the clock advanced, and was answered second.
C6_Witness ==
    \E i \in Ids :
        /\ Valid(i) /\ Len(sent[i]) = 1 /\ time_delay # 0
        /\ TransmitField(sent[i][1].data) # ReceiveField(sent[i][1].data)
        /\ i = 2 /\ Len(taken) = 2

\* C7: under a delay >= 0 (the clock of the model never goes back) every
\* reply has transmit field >= receive field.
C7_TransmitAfterReceive ==
    time_delay >= 0 =>
        \A i \in Ids : \A k \in 1..Len(sent[i]) :
            BytesGE(TransmitField(sent[i][k].data), ReceiveField(sent[i][k].data))

\* A valid request was answered under delay 5 within the same clock reading.
C7_Witness ==
    \E i \in Ids :
        /\ Valid(i) /\ Len(sent[i]) = 1 /\ time_delay = 5
        /\ TransmitField(sent[i][1].data) = ReceiveField(sent[i][1].data)

\* C8: every datagram the server sends has mode 4 in bits 0-2 of byte 0.
C8_EveryReplyModeFour ==
    \A i \in Ids : \A k \in 1..Len(sent[i]) : ModeField(sent[i][k].data) = 4

\* C9: every datagram shorter than 48 bytes that a worker has dealt with
\* while the server runs was answered by exactly one reply, for every delay.
C9_ShortAnsweredOnce ==
    state = "Running" =>
        \A i \in Ids : (Short(i) /\ Handled(i)) => Len(sent[i]) = 1

\* C10: a datagram shorter than 48 bytes that a worker has dealt with while
\* the server runs was answered, and every reply to it has originate and
\* receive fields zero.
C10_ShortReplyZeroFields ==
    \A i \in Ids : Short(i) =>
        /\ (state = "Running" /\ Handled(i)) => Len(sent[i]) >= 1
        /\ \A k \in 1..Len(sent[i]) :
              /\ OriginateField(sent[i][k].data) = Zeros(8)
              /\ ReceiveField(sent[i][k].data) = Zeros(8)

\* The number of replies sent so far, whatever datagram they answer.
ReplyCount == Cardinality(UNION {{<<i, k>> : k \in 1..Len(sent[i])} : i \in Ids})

C12_ClosedExactlyOnce ==
    /\ closes <= 1
    /\ state = "Stopped" <=> closes = 1
    /\ state \in {"Created", "Running"} <=> closes = 0

\* The scope was left with a request still queued and a worker mid-reply.
C12_Witness ==
    state = "Stopped" /\ closes = 1 /\ requests # <<>> /\ holding # EmptyBag

\* C13: while the request queue is empty a worker takes no step.
C13_BlockingDequeue ==
    requests = <<>> => ~ENABLED (WorkerEmpty \/ WorkerGet)

\* A pass of the receiver's loop in which recvfrom raised / returned.
ErrorPass ==
    /\ Len(received') = Len(received) + 1
    /\ received'[Len(received')].address = "error"
DatagramPass ==
    /\ Len(received') = Len(received) + 1
    /\ received'[Len(received')].address # "error"

\* C14: the receiver never ends; a receive error leaves the queue as it is;
\* every datagram received, after an error too, is enqueued at the tail with
\* its sender.
C14_ReceiverKeepsGoing ==
    [][/\ rpc' # "dead"
       /\ state' \in {"Running", "Stopped"} => rpc' \in {"recvfrom", "loop"}
       /\ ErrorPass => requests' = requests
       /\ DatagramPass =>
             /\ Len(requests') = Len(requests) + 1
             /\ SubSeq(requests', 1, Len(requests)) = requests
             /\ requests'[Len(requests')].id = Len(received')
             /\ requests'[Len(requests')].address
                    = received'[Len(received')].address]_vars

\* After a receive error a zero-byte datagram was received and enqueued, and
\* the receiver is in recvfrom again.
C14_Witness ==
    /\ Len(received) = 2
    /\ received[1].address = "error"
    /\ received[2].address = "a1" /\ received[2].data = <<>>
    /\ Len(requests) = 1 /\ requests[1].id = 2
    /\ rpc = "recvfrom" /\ state = "Running"

C16_FrameLayout ==
    \A i \in Ids : \A k \in 1..Len(sent[i]) :
        LET d == sent[i][k].data
        IN  /\ Len(d) = 48
            /\ \A j \in 1..48 : d[j] \in 0..255
            /\ \A j \in 2..24 : d[j] = 0
            /\ Valid(i) =>
                  /\ SubSeq(d, 25, 32) = SubSeq(received[i].data, 41, 48)
                  /\ SubSeq(d, 33, 40) = NtpStamp(received[i].arrival, time_delay)
                  /\ \E c \in received[i].arrival..MaxClock :
                        SubSeq(d, 41, 48) = NtpStamp(c, time_delay)

\* A request with a non-zero originate field was answered after the clock
\* moved, so the three timestamps differ.
C16_Witness ==
    \E i \in Ids :
        /\ Valid(i) /\ Len(sent[i]) = 1
        /\ received[i].data = OtherRequest
        /\ SubSeq(sent[i][1].data, 33, 40) # SubSeq(sent[i][1].data, 41, 48)

\* C17: with a port outside 1 < port < 65535 the process ends with status 1
\* without a socket, a Server or a thread; nothing else ends it that way
\* before the socket is opened.
C17_PortChecked ==
    /\ (port <= 1 \/ port >= 65535) =>
          /\ state \in {"Parsed", "Exited"}
          /\ rpc = "unstarted" /\ Idle = 0 /\ closes = 0
          /\ received = <<>>
    /\ state = "Exited" <=> (exit_status = 1 /\ (port <= 1 \/ port >= 65535))
    /\ state \in {"Created", "Running", "Stopped"} => (1 < port /\ port < 65535)

\* The server runs on the lowest port of the range and has received a datagram.
C17_Witness == port = 2 /\ state = "Running" /\ received # <<>>

\* C18: every reply goes to the address its datagram came from, and a reply
\* echoing originate X goes to a client that sent X.
C18_ReplyToSender ==
    \A i \in Ids : \A k \in 1..Len(sent[i]) :
        /\ sent[i][k].address = received[i].address
        /\ Valid(i) =>
              \E j \in Ids :
                  /\ Valid(j)
                  /\ received[j].address = sent[i][k].address
                  /\ SubSeq(received[j].data, 41, 48)
                         = OriginateField(sent[i][k].data)

\* The first client's request was answered after the second client's arrived.
C18_Witness ==
    /\ Len(received) = 2
    /\ Valid(1) /\ Valid(2)
    /\ received[1].address # received[2].address
    /\ Len(sent[1]) = 1 /\ Len(sent[2]) = 1

\* C19: while the server is Running no worker thread has ended, for every
\* delay and every sequence of datagrams.
C19_WorkersStayAlive == state = "Running" => dead = 0

\* C20: the reply to a valid request carries the request's version in bits
\* 3-5 of byte 0 and leap-indicator bits 0.
C20_VersionEcho ==
    \A i \in Ids : Valid(i) =>
        \A k \in 1..Len(sent[i]) :
            /\ (sent[i][k].data[1] \div 8) % 8 = (received[i].data[1] \div 8) % 8
            /\ sent[i][k].data[1] \div 64 = 0

\* A version-4 request with leap-indicator bits 3 was answered.
C20_Witness ==
    \E i \in Ids :
        /\ Valid(i) /\ Len(sent[i]) = 1
        /\ received[i].data[1] = 227

====
